---- MODULE Spec2Model ----
(***************************************************************************)
(* prism::ReferenceGraph (src/src/graph/native/graph.cc, graph.h): an      *)
(* in-memory index of symbols, references between symbols and files, with  *)
(* two adjacency indices (outgoing and incoming reference ids per symbol). *)
(* The std::unordered_map members are partial functions: a TLA+ function   *)
(* whose DOMAIN is the set of keys present.  The std::vector members are   *)
(* sequences.  Every member function of the class is an operator from a    *)
(* graph record g (the six members) to the graph record after the call;    *)
(* the actions apply these operators to the variables.                     *)
(***************************************************************************)
EXTENDS Integers, Sequences, FiniteSets, TLC

VARIABLES symbols_, references_, symbolToReferences_, symbolToCallers_,
          files_, dirtyFiles_,
          pc   \* where a removal in progress stands; Idle between calls

vars == <<symbols_, references_, symbolToReferences_, symbolToCallers_,
          files_, dirtyFiles_, pc>>

(***************************************************************************)
(* Input domains.  Ids, names and paths are opaque strings in the code.    *)
(***************************************************************************)
SymIds == {"A", "B"}
Names == {"n1", "n2"}
RefIds == {"r1", "r2"}
Paths == {"p", "q"}

\* Most entries addReference is let to build in each adjacency index, all
\* lists together (the code has no cap).
MaxAdj == 2
\* Longest symbol list given to addSymbols or carried by a FileData.
MaxSyms == 2

BSeq(S, n) == UNION {[1..k -> S] : k \in 0..n}

\* struct Symbol: id and one payload field.
Symbol == [id : SymIds, name : Names]
\* struct Reference: id and the two endpoints.
Reference == [id : RefIds, fromSymbolId : SymIds, toSymbolId : SymIds]
\* struct FileData: path and the symbols the file contributes.
FileData == [path : Paths, symbols : BSeq(Symbol, MaxSyms)]

\* The symbols a parser reports in files: one payload value per id.
ParsedSymbol == {symbol \in Symbol : symbol.name = "n1"}

\* Symbol(): the default-constructed symbol, every string empty.
DefaultSymbol == [id |-> "", name |-> ""]

\* The objects the host passes for a symbol: every field is optional, and an
\* object may come without an id.
JsSymbol == Symbol \cup [name : Names]

\* JsToSymbol: a field the object lacks keeps its default.
JsToSymbol(obj) ==
  [id |-> IF "id" \in DOMAIN obj THEN obj.id ELSE DefaultSymbol.id,
   name |-> IF "name" \in DOMAIN obj THEN obj.name ELSE DefaultSymbol.name]

\* JsToSymbol over the elements of an array.
JsToSymbols(arr) == [i \in 1..Len(arr) |-> JsToSymbol(arr[i])]

\* env.Null()
Null == [null |-> TRUE]

(***************************************************************************)
(* std::unordered_map and std::vector primitives.                          *)
(***************************************************************************)
\* m.find(k) != m.end()
Has(m, k) == k \in DOMAIN m

\* m[k] = v
Put(m, k, v) == [x \in (DOMAIN m) \cup {k} |-> IF x = k THEN v ELSE m[x]]

\* m.erase(k)
Erase(m, k) == [x \in (DOMAIN m) \ {k} |-> m[x]]

\* m[k] read through operator[]: a missing key is default-constructed (empty vector).
At(m, k) == IF k \in DOMAIN m THEN m[k] ELSE <<>>

\* v.erase(std::remove(v.begin(), v.end(), x), v.end())
EraseRemove_SwapLast(v, x) ==
  IF \E i \in 1..Len(v) : v[i] = x
  THEN LET i == CHOOSE k \in 1..Len(v) : v[k] = x
       IN SubSeq([v EXCEPT ![i] = v[Len(v)]], 1, Len(v) - 1)
  ELSE v

EraseRemove(v, x) == SelectSeq(v, LAMBDA e : e # x)

\* The empty unordered_map.
EmptyMap == [x \in {} |-> x]

\* The members of the current ReferenceGraph as one record.
G == [symbols_ |-> symbols_, references_ |-> references_,
      symbolToReferences_ |-> symbolToReferences_,
      symbolToCallers_ |-> symbolToCallers_,
      files_ |-> files_, dirtyFiles_ |-> dirtyFiles_]

\* The graph after ReferenceGraph::ReferenceGraph().
EmptyGraph == [symbols_ |-> EmptyMap, references_ |-> EmptyMap,
               symbolToReferences_ |-> EmptyMap, symbolToCallers_ |-> EmptyMap,
               files_ |-> EmptyMap, dirtyFiles_ |-> {}]

(***************************************************************************)
(* Symbol table.                                                           *)
(***************************************************************************)
addSymbol_InsertOnly(g, symbol) ==
  IF Has(g.symbols_, symbol.id) THEN g
  ELSE [g EXCEPT !.symbols_ = Put(g.symbols_, symbol.id, symbol)]

addSymbol(g, symbol) ==
  [g EXCEPT !.symbols_ = Put(g.symbols_, symbol.id, symbol)]

RECURSIVE addSymbolsFrom(_, _, _)
addSymbolsFrom(g, symbols, i) ==
  IF i > Len(symbols) THEN g
  ELSE addSymbolsFrom(addSymbol(g, symbols[i]), symbols, i + 1)

addSymbols(g, symbols) == addSymbolsFrom(g, symbols, 1)

hasSymbol(g, symbolId) == Has(g.symbols_, symbolId)

getSymbol(g, symbolId) ==
  IF Has(g.symbols_, symbolId) THEN g.symbols_[symbolId] ELSE DefaultSymbol

\* What ReferenceGraphWrapper::GetSymbol returns for a string id.
GetSymbol(g, symbolId) ==
  LET s == getSymbol(g, symbolId)
  IN IF s.id = "" THEN Null ELSE s

(***************************************************************************)
(* Reference table and adjacency.                                          *)
(***************************************************************************)
addReference(g, reference) ==
  [g EXCEPT
     !.references_ = Put(g.references_, reference.id, reference),
     !.symbolToReferences_ =
        Put(g.symbolToReferences_, reference.fromSymbolId,
            Append(At(g.symbolToReferences_, reference.fromSymbolId), reference.id)),
     !.symbolToCallers_ =
        Put(g.symbolToCallers_, reference.toSymbolId,
            Append(At(g.symbolToCallers_, reference.toSymbolId), reference.id))]

RECURSIVE addReferencesFrom(_, _, _)
addReferencesFrom(g, references, i) ==
  IF i > Len(references) THEN g
  ELSE addReferencesFrom(addReference(g, references[i]), references, i + 1)

addReferences(g, references) == addReferencesFrom(g, references, 1)

\* Mutant of removeReferencesStep: the id is pruned from the incoming list
\* but the reference stays in the table.
removeReferencesStep_KeepsReference(g, refId) ==
  IF Has(g.references_, refId)
  THEN LET to == g.references_[refId].toSymbolId
       IN [g EXCEPT
             !.symbolToCallers_ =
                Put(g.symbolToCallers_, to,
                    EraseRemove(At(g.symbolToCallers_, to), refId))]
  ELSE g

\* Mutant of removeReferencesStep: the whole incoming list of the target is
\* emptied instead of pruned of the one id.
removeReferencesStep_ClearsCallers(g, refId) ==
  IF Has(g.references_, refId)
  THEN LET to == g.references_[refId].toSymbolId
       IN [g EXCEPT
             !.symbolToCallers_ = Put(g.symbolToCallers_, to, <<>>),
             !.references_ = Erase(g.references_, refId)]
  ELSE g

\* One iteration of the loop of removeReferences over it->second (line 58-66).
removeReferencesStep(g, refId) ==
  IF Has(g.references_, refId)
  THEN LET to == g.references_[refId].toSymbolId
       IN [g EXCEPT
             !.symbolToCallers_ =
                Put(g.symbolToCallers_, to,
                    EraseRemove(At(g.symbolToCallers_, to), refId)),
             !.references_ = Erase(g.references_, refId)]
  ELSE g

\* Mutant of removeReferencesLoop: only the first id of the list is handled.
removeReferencesLoop_FirstOnly(g, ids, i) ==
  IF i > Len(ids) THEN g ELSE removeReferencesStep(g, ids[i])

RECURSIVE removeReferencesLoop(_, _, _)
removeReferencesLoop(g, ids, i) ==
  IF i > Len(ids) THEN g
  ELSE removeReferencesLoop(removeReferencesStep(g, ids[i]), ids, i + 1)

removeReferences(g, symbolId) ==
  IF Has(g.symbolToReferences_, symbolId)
  THEN LET g1 == removeReferencesLoop(g, g.symbolToReferences_[symbolId], 1)
       IN [g1 EXCEPT !.symbolToReferences_ = Erase(g1.symbolToReferences_, symbolId)]
  ELSE g

\* The references a list of ids resolves to, dangling ids skipped.
RECURSIVE resolve(_, _, _)
resolve(g, ids, i) ==
  IF i > Len(ids) THEN <<>>
  ELSE IF Has(g.references_, ids[i])
       THEN <<g.references_[ids[i]]>> \o resolve(g, ids, i + 1)
       ELSE resolve(g, ids, i + 1)

findCallers(g, symbolId) ==
  IF Has(g.symbolToCallers_, symbolId)
  THEN resolve(g, g.symbolToCallers_[symbolId], 1)
  ELSE <<>>

findCallees(g, symbolId) ==
  IF Has(g.symbolToReferences_, symbolId)
  THEN resolve(g, g.symbolToReferences_[symbolId], 1)
  ELSE <<>>

(***************************************************************************)
(* File-scoped operations.                                                 *)
(***************************************************************************)
\* Mutant of addFile: the symbols of the record being replaced are dropped
\* from the symbol table.
addFile_DropsOldSymbols(g, file) ==
  LET old == IF Has(g.files_, file.path)
             THEN {g.files_[file.path].symbols[i].id :
                     i \in 1..Len(g.files_[file.path].symbols)}
             ELSE {}
  IN addSymbols([g EXCEPT !.files_ = Put(g.files_, file.path, file),
                          !.symbols_ = [x \in (DOMAIN g.symbols_) \ old |-> g.symbols_[x]]],
                file.symbols)

addFile(g, file) ==
  addSymbols([g EXCEPT !.files_ = Put(g.files_, file.path, file)], file.symbols)

\* One iteration of the inner loop of removeFile over callersIt->second (line 120-127).
removeCallerStep_NoPrune(g, refId) ==
  IF Has(g.references_, refId)
  THEN [g EXCEPT !.references_ = Erase(g.references_, refId)]
  ELSE g

removeCallerStep(g, refId) ==
  IF Has(g.references_, refId)
  THEN LET from == g.references_[refId].fromSymbolId
       IN [g EXCEPT
             !.symbolToReferences_ =
                Put(g.symbolToReferences_, from,
                    EraseRemove(At(g.symbolToReferences_, from), refId)),
             !.references_ = Erase(g.references_, refId)]
  ELSE g

RECURSIVE removeCallersLoop(_, _, _)
removeCallersLoop(g, ids, i) ==
  IF i > Len(ids) THEN g
  ELSE removeCallersLoop(removeCallerStep(g, ids[i]), ids, i + 1)

\* Mutant of removeFileSymbol: the references to the symbol are not purged.
removeFileSymbol_OutgoingOnly(g, symId) ==
  LET g1 == removeReferences(g, symId)
  IN [g1 EXCEPT !.symbols_ = Erase(g1.symbols_, symId)]

\* Mutant of removeFileSymbol: the symbol table is cleared instead of erasing
\* the one symbol.
removeFileSymbol_ClearsSymbols(g, symId) ==
  LET g1 == removeReferences(g, symId)
      g2 == [g1 EXCEPT !.symbols_ = EmptyMap]
  IN IF Has(g2.symbolToCallers_, symId)
     THEN LET g3 == removeCallersLoop(g2, g2.symbolToCallers_[symId], 1)
          IN [g3 EXCEPT !.symbolToCallers_ = Erase(g3.symbolToCallers_, symId)]
     ELSE g2

\* The body of the loop of removeFile for one symbol of the file (line 114-129).
removeFileSymbol(g, symId) ==
  LET g1 == removeReferences(g, symId)
      g2 == [g1 EXCEPT !.symbols_ = Erase(g1.symbols_, symId)]
  IN IF Has(g2.symbolToCallers_, symId)
     THEN LET g3 == removeCallersLoop(g2, g2.symbolToCallers_[symId], 1)
          IN [g3 EXCEPT !.symbolToCallers_ = Erase(g3.symbolToCallers_, symId)]
     ELSE g2

RECURSIVE removeFileLoop(_, _, _)
removeFileLoop(g, symbols, i) ==
  IF i > Len(symbols) THEN g
  ELSE removeFileLoop(removeFileSymbol(g, symbols[i].id), symbols, i + 1)

removeFile(g, filePath) ==
  IF Has(g.files_, filePath)
  THEN LET g1 == removeFileLoop(g, g.files_[filePath].symbols, 1)
       IN [g1 EXCEPT !.files_ = Erase(g1.files_, filePath)]
  ELSE g

\* Mutant of updateFile: the old record is not removed first.
updateFile_NoRemove(g, filePath, file) == addFile(g, file)

updateFile_RemovesBoth(g, filePath, file) ==
  addFile(removeFile(removeFile(g, filePath), file.path), file)

updateFile(g, filePath, file) == addFile(removeFile(g, filePath), file)

(***************************************************************************)
(* The statements of removeReferences and removeFile, one by one.          *)
(***************************************************************************)
\* callers.erase(std::remove(...)) on symbolToCallers_[to] in removeReferences.
pruneIncoming(g, refId) ==
  LET to == g.references_[refId].toSymbolId
  IN [g EXCEPT !.symbolToCallers_ =
         Put(g.symbolToCallers_, to, EraseRemove(At(g.symbolToCallers_, to), refId))]

\* references_.erase(refIt), in either function.
eraseReference(g, refId) == [g EXCEPT !.references_ = Erase(g.references_, refId)]

eraseOutgoing_Skip(g, symbolId) == g

\* symbolToReferences_.erase(it) at the end of removeReferences.
eraseOutgoing(g, symbolId) ==
  [g EXCEPT !.symbolToReferences_ = Erase(g.symbolToReferences_, symbolId)]

\* symbols_.erase(sym.id) in removeFile.
eraseSymbol(g, symId) == [g EXCEPT !.symbols_ = Erase(g.symbols_, symId)]

\* outgoing.erase(std::remove(...)) on symbolToReferences_[from] in removeFile.
pruneOutgoing(g, refId) ==
  LET from == g.references_[refId].fromSymbolId
  IN [g EXCEPT !.symbolToReferences_ =
         Put(g.symbolToReferences_, from,
             EraseRemove(At(g.symbolToReferences_, from), refId))]

\* symbolToCallers_.erase(callersIt) in removeFile.
eraseIncoming(g, symId) ==
  [g EXCEPT !.symbolToCallers_ = Erase(g.symbolToCallers_, symId)]

\* files_.erase(it) at the end of removeFile.
eraseFile(g, filePath) == [g EXCEPT !.files_ = Erase(g.files_, filePath)]

hasFile(g, filePath) == Has(g.files_, filePath)

markFileDirty(g, filePath) == [g EXCEPT !.dirtyFiles_ = g.dirtyFiles_ \cup {filePath}]

clearDirtyFiles(g) == [g EXCEPT !.dirtyFiles_ = {}]

\* One order in which a map's keys are visited.  The iteration order of an
\* unordered_map is unspecified; nothing below depends on which order this is.
RECURSIVE Iterate(_)
Iterate(keys) ==
  IF keys = {} THEN <<>>
  ELSE LET k == CHOOSE x \in keys : TRUE
       IN <<k>> \o Iterate(keys \ {k})

getAllSymbols(g) ==
  LET keys == Iterate(DOMAIN g.symbols_)
  IN [i \in 1..Len(keys) |-> g.symbols_[keys[i]]]

isSymbolUsed(g, symbolId) ==
  Has(g.symbolToCallers_, symbolId) /\ g.symbolToCallers_[symbolId] # <<>>

findUnusedSymbols_NoFilter(g) ==
  LET keys == Iterate(DOMAIN g.symbols_)
  IN [i \in 1..Len(keys) |-> g.symbols_[keys[i]]]

findUnusedSymbols(g) ==
  LET keys == SelectSeq(Iterate(DOMAIN g.symbols_), LAMBDA k : ~isSymbolUsed(g, k))
  IN [i \in 1..Len(keys) |-> g.symbols_[keys[i]]]

findSymbolsByFile(g, filePath) ==
  IF Has(g.files_, filePath) THEN g.files_[filePath].symbols ELSE <<>>

\* getStats: memoryUsageBytes, an estimate derived from the three sizes, is
\* left out.
getStats_CountsReferences(g) ==
  [totalSymbols |-> Cardinality(DOMAIN g.references_),
   totalReferences |-> Cardinality(DOMAIN g.references_),
   totalFiles |-> Cardinality(DOMAIN g.files_)]

getStats(g) ==
  [totalSymbols |-> Cardinality(DOMAIN g.symbols_),
   totalReferences |-> Cardinality(DOMAIN g.references_),
   totalFiles |-> Cardinality(DOMAIN g.files_)]

size(g) == Cardinality(DOMAIN g.symbols_)

clear_KeepsCallers(g) ==
  [g EXCEPT !.symbols_ = EmptyMap,
            !.references_ = EmptyMap,
            !.symbolToReferences_ = EmptyMap,
            !.files_ = EmptyMap,
            !.dirtyFiles_ = {}]

clear(g) ==
  [g EXCEPT !.symbols_ = EmptyMap,
            !.references_ = EmptyMap,
            !.symbolToReferences_ = EmptyMap,
            !.symbolToCallers_ = EmptyMap,
            !.files_ = EmptyMap,
            !.dirtyFiles_ = {}]

(***************************************************************************)
(* The binding: the values the host passes, the conversions and the        *)
(* argument validation of each wrapper.  info is the list of arguments of  *)
(* a call; a wrapper yields the graph it leaves and what it throws.        *)
(***************************************************************************)
JsUndefined == [type |-> "undefined"]
JsNumber == [type |-> "number"]
JsString(s) == [type |-> "string", value |-> s]
JsObject(obj) == [type |-> "object", value |-> obj]
JsArray(arr) == [type |-> "array", value |-> arr]

\* Napi::Value::IsString, IsArray, IsObject; an array is an object too.
IsString(v) == v.type = "string"
IsArray(v) == v.type = "array"
IsObject(v) == v.type \in {"object", "array"}

\* The named properties of a value taken As<Napi::Object>: an array has none
\* of the names the conversions ask for.
Properties(v) == IF v.type = "object" THEN v.value ELSE EmptyMap

\* JsToReference: a field the object lacks keeps its default.
JsToReference(obj) ==
  [id |-> IF "id" \in DOMAIN obj THEN obj.id ELSE "",
   fromSymbolId |-> IF "fromSymbolId" \in DOMAIN obj THEN obj.fromSymbolId ELSE "",
   toSymbolId |-> IF "toSymbolId" \in DOMAIN obj THEN obj.toSymbolId ELSE ""]

JsToReferences(arr) == [i \in 1..Len(arr) |-> JsToReference(arr[i])]

\* JsToFileData: a field the object lacks keeps its default.
JsToFileData(obj) ==
  [path |-> IF "path" \in DOMAIN obj THEN obj.path ELSE "",
   symbols |-> IF "symbols" \in DOMAIN obj THEN JsToSymbols(obj.symbols) ELSE <<>>]

\* Napi::TypeError thrown, the graph untouched.
Thrown(g) == [graph |-> g, thrown |-> "TypeError"]

\* The wrapper ran to its end and left the graph as g.
Done(g) == [graph |-> g, thrown |-> "none"]

Wrapper_AddSymbol_NoReturn(g, info) ==
  IF Len(info) < 1 \/ ~IsObject(info[1])
  THEN [graph |-> addSymbol(g, DefaultSymbol), thrown |-> "TypeError"]
  ELSE Done(addSymbol(g, JsToSymbol(Properties(info[1]))))

Wrapper_AddSymbol(g, info) ==
  IF Len(info) < 1 \/ ~IsObject(info[1])
  THEN Thrown(g)
  ELSE Done(addSymbol(g, JsToSymbol(Properties(info[1]))))

Wrapper_AddSymbols(g, info) ==
  IF Len(info) < 1 \/ ~IsArray(info[1])
  THEN Thrown(g)
  ELSE Done(addSymbols(g, JsToSymbols(info[1].value)))

Wrapper_AddReference(g, info) ==
  IF Len(info) < 1 \/ ~IsObject(info[1])
  THEN Thrown(g)
  ELSE Done(addReference(g, JsToReference(Properties(info[1]))))

Wrapper_AddReferences(g, info) ==
  IF Len(info) < 1 \/ ~IsArray(info[1])
  THEN Thrown(g)
  ELSE Done(addReferences(g, JsToReferences(info[1].value)))

Wrapper_RemoveReferences(g, info) ==
  IF Len(info) < 1 \/ ~IsString(info[1])
  THEN Thrown(g)
  ELSE Done(removeReferences(g, info[1].value))

Wrapper_AddFile(g, info) ==
  IF Len(info) < 1 \/ ~IsObject(info[1])
  THEN Thrown(g)
  ELSE Done(addFile(g, JsToFileData(Properties(info[1]))))

Wrapper_UpdateFile(g, info) ==
  IF Len(info) < 2 \/ ~IsString(info[1]) \/ ~IsObject(info[2])
  THEN Thrown(g)
  ELSE Done(updateFile(g, info[1].value, JsToFileData(Properties(info[2]))))

Wrapper_RemoveFile(g, info) ==
  IF Len(info) < 1 \/ ~IsString(info[1])
  THEN Thrown(g)
  ELSE Done(removeFile(g, info[1].value))

\* The check every lookup by id or path makes before it reads the graph
\* (HasSymbol, GetSymbol, FindCallers, FindCallees, HasFile, IsSymbolUsed,
\* FindSymbolsByFile); the lookups are const and leave the graph as it is.
Wrapper_Lookup(g, info) ==
  IF Len(info) < 1 \/ ~IsString(info[1])
  THEN Thrown(g)
  ELSE Done(g)

(***************************************************************************)
(* The state machine: one action per public operation.                     *)
(***************************************************************************)
\* No call is in progress.
Idle == [op |-> "none", at |-> "idle", filePath |-> "", k |-> 0,
         symbolId |-> "", i |-> 0]

\* The state after a step that leaves the graph as g and control at p.
StepTo(g, p) ==
  /\ symbols_' = g.symbols_
  /\ references_' = g.references_
  /\ symbolToReferences_' = g.symbolToReferences_
  /\ symbolToCallers_' = g.symbolToCallers_
  /\ files_' = g.files_
  /\ dirtyFiles_' = g.dirtyFiles_
  /\ pc' = p

\* A whole call, from start to return, as one step: it starts when no other
\* call is in progress and leaves the graph as g.
Becomes(g) ==
  /\ pc = Idle
  /\ pc' = pc
  /\ symbols_' = g.symbols_
  /\ references_' = g.references_
  /\ symbolToReferences_' = g.symbolToReferences_
  /\ symbolToCallers_' = g.symbolToCallers_
  /\ files_' = g.files_
  /\ dirtyFiles_' = g.dirtyFiles_

Init ==
  /\ symbols_ = EmptyMap
  /\ references_ = EmptyMap
  /\ symbolToReferences_ = EmptyMap
  /\ symbolToCallers_ = EmptyMap
  /\ files_ = EmptyMap
  /\ dirtyFiles_ = {}
  /\ pc = Idle

\* The number of entries of an adjacency index, all lists together.
RECURSIVE Entries(_)
Entries(m) ==
  IF DOMAIN m = {} THEN 0
  ELSE LET k == CHOOSE x \in DOMAIN m : TRUE
       IN Len(m[k]) + Entries(Erase(m, k))

\* Neither adjacency index of g holds more than MaxAdj entries (the bound of the model).
WithinAdj(g) ==
  /\ Entries(g.symbolToReferences_) <= MaxAdj
  /\ Entries(g.symbolToCallers_) <= MaxAdj

AddSymbol(symbol) == Becomes(addSymbol(G, JsToSymbol(symbol)))

AddSymbols(symbols) == Becomes(addSymbols(G, JsToSymbols(symbols)))

AddReference(reference) ==
  /\ WithinAdj(addReference(G, reference))
  /\ Becomes(addReference(G, reference))

AddReferences(references) ==
  /\ WithinAdj(addReferences(G, references))
  /\ Becomes(addReferences(G, references))

\* addReference as a caller uses it who never passes an id the reference
\* table holds.
AddNewReference(reference) ==
  /\ ~Has(references_, reference.id)
  /\ Becomes(addReference(G, reference))

\* addReferences of a batch whose ids are distinct and all new.
AddNewReferences(references) ==
  /\ \A i \in 1..Len(references) :
       /\ ~Has(references_, references[i].id)
       /\ \A j \in 1..Len(references) : i # j => references[i].id # references[j].id
  /\ Becomes(addReferences(G, references))

RemoveReferences(symbolId) == Becomes(removeReferences(G, symbolId))

AddFile(file) == Becomes(addFile(G, file))

UpdateFile(filePath, file) == Becomes(updateFile(G, filePath, file))

RemoveFile(filePath) == Becomes(removeFile(G, filePath))

MarkFileDirty(filePath) == Becomes(markFileDirty(G, filePath))

ClearDirtyFiles == Becomes(clearDirtyFiles(G))

Clear == Becomes(clear(G))

(***************************************************************************)
(* removeReferences and removeFile statement by statement, as a reader     *)
(* without a lock could find the graph between two statements of a         *)
(* writer.  pc.at names the statement to run next; pc.i is the position in *)
(* the list being iterated, pc.k the position in the file's symbols.       *)
(***************************************************************************)
\* removeReferences is entered; a symbol without an outgoing list makes the
\* call return at once, which changes nothing.
BeginRemoveReferences(symbolId) ==
  /\ pc = Idle
  /\ Has(symbolToReferences_, symbolId)
  /\ StepTo(G, [Idle EXCEPT !.op = "removeReferences", !.at = "rr_loop",
                            !.symbolId = symbolId, !.i = 1])

\* The loop of removeReferences at element pc.i: look the id up and prune the
\* incoming list of its target, or skip an id the table does not hold.
RemoveReferencesPrune ==
  /\ pc.at = "rr_loop"
  /\ pc.i <= Len(symbolToReferences_[pc.symbolId])
  /\ LET refId == symbolToReferences_[pc.symbolId][pc.i]
     IN IF Has(references_, refId)
        THEN StepTo(pruneIncoming(G, refId), [pc EXCEPT !.at = "rr_erase"])
        ELSE StepTo(G, [pc EXCEPT !.i = @ + 1])

RemoveReferencesErase ==
  /\ pc.at = "rr_erase"
  /\ StepTo(eraseReference(G, symbolToReferences_[pc.symbolId][pc.i]),
            [pc EXCEPT !.at = "rr_loop", !.i = @ + 1])

\* After the loop the outgoing list is erased and removeReferences returns,
\* to its caller in removeFile or to the host.
RemoveReferencesEnd ==
  /\ pc.at = "rr_loop"
  /\ pc.i > Len(symbolToReferences_[pc.symbolId])
  /\ StepTo(eraseOutgoing(G, pc.symbolId),
            IF pc.op = "removeFile"
            THEN [pc EXCEPT !.at = "rf_symbol", !.i = 0]
            ELSE Idle)

\* removeFile is entered; an unknown path makes the call return at once.
BeginRemoveFile(filePath) ==
  /\ pc = Idle
  /\ Has(files_, filePath)
  /\ StepTo(G, [Idle EXCEPT !.op = "removeFile", !.at = "rf_next",
                            !.filePath = filePath, !.k = 1])

\* The outer loop at symbol pc.k: removeReferences(sym.id) is called.
RemoveFileCall ==
  /\ pc.at = "rf_next"
  /\ pc.k <= Len(files_[pc.filePath].symbols)
  /\ LET symId == files_[pc.filePath].symbols[pc.k].id
     IN IF Has(symbolToReferences_, symId)
        THEN StepTo(G, [pc EXCEPT !.at = "rr_loop", !.symbolId = symId, !.i = 1])
        ELSE StepTo(G, [pc EXCEPT !.at = "rf_symbol", !.symbolId = symId])

RemoveFileEraseSymbol ==
  /\ pc.at = "rf_symbol"
  /\ StepTo(eraseSymbol(G, pc.symbolId), [pc EXCEPT !.at = "rf_callers", !.i = 1])

\* The inner loop at element pc.i of the incoming list: look the id up and
\* prune the outgoing list of its source, or skip an id the table lacks.
RemoveFilePrune ==
  /\ pc.at = "rf_callers"
  /\ Has(symbolToCallers_, pc.symbolId)
  /\ pc.i <= Len(symbolToCallers_[pc.symbolId])
  /\ LET refId == symbolToCallers_[pc.symbolId][pc.i]
     IN IF Has(references_, refId)
        THEN StepTo(pruneOutgoing(G, refId), [pc EXCEPT !.at = "rf_erase"])
        ELSE StepTo(G, [pc EXCEPT !.i = @ + 1])

RemoveFileErase ==
  /\ pc.at = "rf_erase"
  /\ StepTo(eraseReference(G, symbolToCallers_[pc.symbolId][pc.i]),
            [pc EXCEPT !.at = "rf_callers", !.i = @ + 1])

\* After the inner loop the incoming list is erased (when there is one) and
\* the outer loop goes on to the next symbol.
RemoveFileEndSymbol ==
  /\ pc.at = "rf_callers"
  /\ Has(symbolToCallers_, pc.symbolId) => pc.i > Len(symbolToCallers_[pc.symbolId])
  /\ StepTo(IF Has(symbolToCallers_, pc.symbolId)
            THEN eraseIncoming(G, pc.symbolId)
            ELSE G,
            [pc EXCEPT !.at = "rf_next", !.k = @ + 1, !.symbolId = "", !.i = 0])

RemoveFileEnd ==
  /\ pc.at = "rf_next"
  /\ pc.k > Len(files_[pc.filePath].symbols)
  /\ StepTo(eraseFile(G, pc.filePath), Idle)

(***************************************************************************)
(* The calls of the host, with whatever arguments it passes.               *)
(***************************************************************************)
CallAddSymbol(info) == Becomes(Wrapper_AddSymbol(G, info).graph)

CallAddSymbols(info) == Becomes(Wrapper_AddSymbols(G, info).graph)

CallAddReference(info) ==
  /\ WithinAdj(Wrapper_AddReference(G, info).graph)
  /\ Becomes(Wrapper_AddReference(G, info).graph)

CallAddReferences(info) ==
  /\ WithinAdj(Wrapper_AddReferences(G, info).graph)
  /\ Becomes(Wrapper_AddReferences(G, info).graph)

CallRemoveReferences(info) == Becomes(Wrapper_RemoveReferences(G, info).graph)

CallAddFile(info) == Becomes(Wrapper_AddFile(G, info).graph)

CallUpdateFile(info) == Becomes(Wrapper_UpdateFile(G, info).graph)

CallRemoveFile(info) == Becomes(Wrapper_RemoveFile(G, info).graph)

(***************************************************************************)
(* Spec: the reference graph under every operation the binding exposes,    *)
(* with every reference over SymIds and RefIds (ids may be re-added), and  *)
(* files at one path holding parsed symbols.  Batches of references are    *)
(* lists of two.                                                           *)
(***************************************************************************)
GraphFiles == [path : {"p"}, symbols : BSeq(ParsedSymbol, MaxSyms)]

Next ==
  \/ \E symbol \in ParsedSymbol : AddSymbol(symbol)
  \/ \E symbols \in BSeq(ParsedSymbol, MaxSyms) : AddSymbols(symbols)
  \/ \E reference \in Reference : AddReference(reference)
  \/ \E r1, r2 \in Reference : AddReferences(<<r1, r2>>)
  \/ \E symbolId \in SymIds : RemoveReferences(symbolId)
  \/ \E file \in GraphFiles : AddFile(file)
  \/ \E file \in GraphFiles : UpdateFile("p", file)
  \/ RemoveFile("p")
  \/ Clear

Spec == Init /\ [][Next]_vars

(***************************************************************************)
(* SpecFiles: the symbol and file tables under every operation of the      *)
(* class, with symbols of either payload added directly (with or without   *)
(* an id), parsed files at two paths, and one reference (which may be      *)
(* re-added).                                                              *)
(***************************************************************************)
ParsedFiles == [path : Paths, symbols : BSeq(ParsedSymbol, MaxSyms)]

OneReference == {[id |-> "r1", fromSymbolId |-> "A", toSymbolId |-> "B"]}

NextFiles ==
  \/ \E symbol \in JsSymbol : AddSymbol(symbol)
  \/ \E symbols \in BSeq(Symbol, MaxSyms) : AddSymbols(symbols)
  \/ \E reference \in OneReference : AddReference(reference)
  \/ \E r1, r2 \in OneReference : AddReferences(<<r1, r2>>)
  \/ \E symbolId \in SymIds : RemoveReferences(symbolId)
  \/ \E file \in ParsedFiles : AddFile(file)
  \/ \E filePath \in Paths, file \in ParsedFiles : UpdateFile(filePath, file)
  \/ \E filePath \in Paths : RemoveFile(filePath)
  \/ Clear

SpecFiles == Init /\ [][NextFiles]_vars

(***************************************************************************)
(* SpecClass: every mutating operation of the class, the two dirty-file    *)
(* operations included (the class declares them public; the binding does   *)
(* not export them), with references of one id over all endpoints and      *)
(* files at one path.                                                      *)
(***************************************************************************)
ClassReferences == {reference \in Reference : reference.id = "r1"}

NextClass ==
  \/ \E symbol \in ParsedSymbol : AddSymbol(symbol)
  \/ \E symbols \in BSeq(ParsedSymbol, MaxSyms) : AddSymbols(symbols)
  \/ \E reference \in ClassReferences : AddReference(reference)
  \/ \E reference \in ClassReferences : AddReferences(<<reference>>)
  \/ \E symbolId \in SymIds : RemoveReferences(symbolId)
  \/ \E file \in GraphFiles : AddFile(file)
  \/ \E file \in GraphFiles : UpdateFile("p", file)
  \/ RemoveFile("p")
  \/ \E filePath \in Paths : MarkFileDirty(filePath)
  \/ ClearDirtyFiles
  \/ Clear

SpecClass == Init /\ [][NextClass]_vars

(***************************************************************************)
(* SpecUnique: the operations the binding exposes, used so that no         *)
(* reference is added under an id the reference table holds; references    *)
(* of three ids over all endpoints, files at one path.                     *)
(***************************************************************************)
UniqueRefIds == RefIds \cup {"r3"}

UniqueReferences ==
  [id : UniqueRefIds, fromSymbolId : SymIds, toSymbolId : SymIds]

NextUnique ==
  \/ \E symbol \in ParsedSymbol : AddSymbol(symbol)
  \/ \E symbols \in BSeq(ParsedSymbol, MaxSyms) : AddSymbols(symbols)
  \/ \E reference \in UniqueReferences : AddNewReference(reference)
  \/ \E r1, r2 \in UniqueReferences : AddNewReferences(<<r1, r2>>)
  \/ \E symbolId \in SymIds : RemoveReferences(symbolId)
  \/ \E file \in GraphFiles : AddFile(file)
  \/ \E file \in GraphFiles : UpdateFile("p", file)
  \/ RemoveFile("p")
  \/ Clear

SpecUnique == Init /\ [][NextUnique]_vars

(***************************************************************************)
(* SpecSteps: one writer whose removeReferences and removeFile run         *)
(* statement by statement and whose other calls run whole; no reference is *)
(* added under an id the reference table holds.  Every state is one a      *)
(* reader without a lock can see.                                          *)
(***************************************************************************)
NextSteps ==
  \/ \E symbol \in ParsedSymbol : AddSymbol(symbol)
  \/ \E reference \in Reference : AddNewReference(reference)
  \/ \E file \in GraphFiles : AddFile(file)
  \/ \E symbolId \in SymIds : BeginRemoveReferences(symbolId)
  \/ RemoveReferencesPrune
  \/ RemoveReferencesErase
  \/ RemoveReferencesEnd
  \/ BeginRemoveFile("p")
  \/ RemoveFileCall
  \/ RemoveFileEraseSymbol
  \/ RemoveFilePrune
  \/ RemoveFileErase
  \/ RemoveFileEndSymbol
  \/ RemoveFileEnd
  \/ Clear

SpecSteps == Init /\ [][NextSteps]_vars

(***************************************************************************)
(* SpecBinding: the mutating methods of the binding called with argument   *)
(* lists of every shape: nothing, undefined, a number, a string, an        *)
(* object (symbol, reference or file), an array, or a pair.                *)
(***************************************************************************)
HostObjects == ParsedSymbol \cup OneReference \cup GraphFiles

HostValues ==
  {JsUndefined, JsNumber}
    \cup {JsString(s) : s \in SymIds \cup {"p"}}
    \cup {JsObject(obj) : obj \in HostObjects}
    \cup {JsArray(arr) : arr \in BSeq(ParsedSymbol, MaxSyms)}
    \cup {JsArray(<<reference>>) : reference \in OneReference}

\* Argument lists of at most one value, and all argument lists.
OneArgument == {<<>>} \cup {<<v>> : v \in HostValues}

Infos ==
  OneArgument
    \cup {<<JsString("p"), v>> : v \in HostValues}
    \cup {<<v, JsString("p")>> : v \in HostValues}

\* A second argument changes nothing for the methods that read one, so they
\* are called with at most one.
NextBinding ==
  \/ \E info \in OneArgument : CallAddSymbol(info)
  \/ \E info \in OneArgument : CallAddSymbols(info)
  \/ \E info \in OneArgument : CallAddReference(info)
  \/ \E info \in OneArgument : CallAddReferences(info)
  \/ \E info \in OneArgument : CallRemoveReferences(info)
  \/ \E info \in OneArgument : CallAddFile(info)
  \/ \E info \in Infos : CallUpdateFile(info)
  \/ \E info \in OneArgument : CallRemoveFile(info)
  \/ Clear

SpecBinding == Init /\ [][NextBinding]_vars

(***************************************************************************)
(* SpecTwoFiles: parsed files at two paths (at the second path with one    *)
(* symbol at most) beside references of one id over all endpoints (the id  *)
(* may be re-added with other endpoints).                                  *)
(***************************************************************************)
TwoFiles ==
  GraphFiles \cup
    [path : {"q"}, symbols : {<<>>} \cup {<<symbol>> : symbol \in ParsedSymbol}]

NextTwoFiles ==
  \/ \E symbol \in ParsedSymbol : AddSymbol(symbol)
  \/ \E reference \in ClassReferences : AddReference(reference)
  \/ \E symbolId \in SymIds : RemoveReferences(symbolId)
  \/ \E file \in TwoFiles : AddFile(file)
  \/ \E filePath \in Paths, file \in TwoFiles : UpdateFile(filePath, file)
  \/ \E filePath \in Paths : RemoveFile(filePath)
  \/ Clear

SpecTwoFiles == Init /\ [][NextTwoFiles]_vars

(***************************************************************************)
(* Vocabulary of the properties.                                           *)
(***************************************************************************)
\* x is an element of the sequence v.
InSeq(x, v) == \E i \in 1..Len(v) : v[i] = x

\* How many times x occurs in the sequence v.
Count(v, x) == Len(SelectSeq(v, LAMBDA e : e = x))

\* The references stored in g.
Stored(g) == {g.references_[id] : id \in DOMAIN g.references_}

\* The ids of the symbols recorded for the file at filePath in g.
FileSymIds(g, filePath) ==
  {g.files_[filePath].symbols[i].id : i \in 1..Len(g.files_[filePath].symbols)}

\* The ids of the symbols of a FileData.
SymIdsOf(file) == {file.symbols[i].id : i \in 1..Len(file.symbols)}

\* reference is returned by findCallers or findCallees of some symbol of g.
Returned(g, reference) ==
  \E x \in SymIds : \/ InSeq(reference, findCallers(g, x))
                    \/ InSeq(reference, findCallees(g, x))

\* Some adjacency list of g holds id.
Listed(g, id) ==
  \/ \E x \in DOMAIN g.symbolToReferences_ : InSeq(id, g.symbolToReferences_[x])
  \/ \E x \in DOMAIN g.symbolToCallers_ : InSeq(id, g.symbolToCallers_[x])

(***************************************************************************)
(* C1: every reference r of the reference table has r.id exactly once in   *)
(* the outgoing list of r.fromSymbolId and exactly once in the incoming    *)
(* list of r.toSymbolId.  (Violated: addReference appends the id again     *)
(* when the id is already stored.)                                         *)
(***************************************************************************)
C1_MirroredExactlyOnce ==
  \A id \in DOMAIN references_ :
    /\ Count(At(symbolToReferences_, references_[id].fromSymbolId), id) = 1
    /\ Count(At(symbolToCallers_, references_[id].toSymbolId), id) = 1

(***************************************************************************)
(* C2: every id held by an outgoing or incoming adjacency list is the id   *)
(* of a reference of the reference table.  (Violated: after a reference id *)
(* is re-added with another source, removing by the old source erases the  *)
(* reference and leaves its id in the list of the new source.)             *)
(***************************************************************************)
C2_NoDanglingAdjacency ==
  /\ \A x \in DOMAIN symbolToReferences_ :
       \A i \in 1..Len(symbolToReferences_[x]) :
         symbolToReferences_[x][i] \in DOMAIN references_
  /\ \A x \in DOMAIN symbolToCallers_ :
       \A i \in 1..Len(symbolToCallers_[x]) :
         symbolToCallers_[x][i] \in DOMAIN references_

(***************************************************************************)
(* C3: symmetry.  Every reference r of the reference table (added and not  *)
(* removed since) is returned by findCallees(r.fromSymbolId) and by        *)
(* findCallers(r.toSymbolId).                                              *)
(***************************************************************************)
C3_Symmetry ==
  \A r \in Stored(G) :
    /\ InSeq(r, findCallees(G, r.fromSymbolId))
    /\ InSeq(r, findCallers(G, r.toSymbolId))

\* A reference between two symbols is found both ways after a removal has
\* pruned an incoming list (the list is left empty) and erased a reference.
C3_Witness ==
  /\ \E r \in Stored(G) :
       /\ r.fromSymbolId # r.toSymbolId
       /\ InSeq(r, findCallees(G, r.fromSymbolId))
       /\ InSeq(r, findCallers(G, r.toSymbolId))
  /\ \E x \in DOMAIN symbolToCallers_ : symbolToCallers_[x] = <<>>
  /\ \E id \in RefIds : id \notin DOMAIN references_

(***************************************************************************)
(* C4: cascading delete completeness.  In a state where a file is recorded *)
(* under path, after removeFile(path): hasFile(path) is false, hasSymbol is *)
(* false for every symbol recorded for the file, and no reference that had *)
(* such a symbol as source or target is returned by findCallers or         *)
(* findCallees of any symbol.                                              *)
(***************************************************************************)
C4_CascadingDelete ==
  \A filePath \in Paths :
    hasFile(G, filePath) =>
      LET after == removeFile(G, filePath)
          gone == FileSymIds(G, filePath)
      IN /\ ~hasFile(after, filePath)
         /\ \A s \in gone : ~hasSymbol(after, s)
         /\ \A r \in Stored(G) :
              (r.fromSymbolId \in gone \/ r.toSymbolId \in gone)
                => ~Returned(after, r)

\* A recorded file has a symbol with an outgoing and an incoming reference
\* to another symbol, and removeFile erases the symbol and both references.
C4_Witness ==
  \E filePath \in Paths :
    /\ hasFile(G, filePath)
    /\ \E s \in FileSymIds(G, filePath), r1, r2 \in Stored(G) :
         /\ hasSymbol(G, s)
         /\ r1.fromSymbolId = s /\ r1.toSymbolId # s /\ Returned(G, r1)
         /\ r2.toSymbolId = s /\ r2.fromSymbolId # s /\ Returned(G, r2)
         /\ ~hasSymbol(removeFile(G, filePath), s)
         /\ removeFile(G, filePath).references_ = EmptyMap

(***************************************************************************)
(* C5: every reference returned by findCallers(x) has toSymbolId = x and   *)
(* every reference returned by findCallees(x) has fromSymbolId = x.        *)
(* (Violated: a reference id re-added with other endpoints stays in the    *)
(* lists of its old endpoints and resolves to the new reference.)          *)
(***************************************************************************)
C5_ReturnedEndpoints ==
  \A x \in SymIds :
    /\ \A i \in 1..Len(findCallers(G, x)) : findCallers(G, x)[i].toSymbolId = x
    /\ \A i \in 1..Len(findCallees(G, x)) : findCallees(G, x)[i].fromSymbolId = x

C7_OutgoingRemoved ==
  \A symbolId \in SymIds :
    LET after == removeReferences(G, symbolId)
    IN /\ \A r \in Stored(after) : r.fromSymbolId # symbolId
       /\ findCallees(after, symbolId) = <<>>
       /\ \A r \in Stored(G) \ Stored(after) :
            ~InSeq(r, findCallers(after, r.toSymbolId))

\* A symbol has two outgoing references, returned by findCallees and by
\* findCallers of their targets, and removeReferences erases both.
C7_Witness ==
  \E symbolId \in SymIds, r1, r2 \in Stored(G) :
    /\ r1 # r2
    /\ r1.fromSymbolId = symbolId /\ r2.fromSymbolId = symbolId
    /\ Len(findCallees(G, symbolId)) = 2
    /\ InSeq(r1, findCallers(G, r1.toSymbolId))
    /\ InSeq(r2, findCallers(G, r2.toSymbolId))
    /\ Stored(removeReferences(G, symbolId)) = {}

(***************************************************************************)
(* C8: removeFile(path) is scoped to the symbols of the file.  Every       *)
(* reference whose fromSymbolId and toSymbolId are both not ids of symbols *)
(* recorded under files[path] is still in the table with the same value    *)
(* and still returned by findCallers and findCallees.  (Violated: a        *)
(* reference id re-added with other endpoints is still listed under a      *)
(* symbol of the file and is erased with it.)                              *)
(***************************************************************************)
C8_RemoveFileScoped ==
  \A filePath \in Paths :
    hasFile(G, filePath) =>
      LET after == removeFile(G, filePath)
          gone == FileSymIds(G, filePath)
      IN \A r \in Stored(G) :
           (r.fromSymbolId \notin gone /\ r.toSymbolId \notin gone) =>
             /\ r \in Stored(after)
             /\ InSeq(r, findCallers(after, r.toSymbolId))
             /\ InSeq(r, findCallees(after, r.fromSymbolId))

(***************************************************************************)
(* C9: updateFile replace semantics.  If a file is recorded at path, then  *)
(* after updateFile(path, file): every symbol of the old file that is not  *)
(* in file.symbols has hasSymbol false, no reference that had a symbol of  *)
(* the old file as source or target is returned by findCallers or          *)
(* findCallees of any symbol, and hasSymbol holds of every symbol of       *)
(* file.symbols.                                                           *)
(***************************************************************************)
C9_UpdateFileReplaces ==
  \A filePath \in Paths, file \in ParsedFiles :
    hasFile(G, filePath) =>
      LET after == updateFile(G, filePath, file)
          old == FileSymIds(G, filePath)
      IN /\ \A s \in old \ SymIdsOf(file) : ~hasSymbol(after, s)
         /\ \A r \in Stored(G) :
              (r.fromSymbolId \in old \/ r.toSymbolId \in old)
                => ~Returned(after, r)
         /\ \A s \in SymIdsOf(file) : hasSymbol(after, s)

\* The file at a path lists a symbol that has an outgoing reference; the
\* update to a file listing only another symbol erases the old symbol and
\* the reference and stores the new symbol.
C9_Witness ==
  \E filePath \in Paths, file \in ParsedFiles, r \in Stored(G) :
    /\ hasFile(G, filePath)
    /\ file.path = filePath
    /\ r.fromSymbolId \in FileSymIds(G, filePath)
    /\ r.fromSymbolId \notin SymIdsOf(file)
    /\ r.toSymbolId \notin FileSymIds(G, filePath)
    /\ hasSymbol(G, r.fromSymbolId)
    /\ Returned(G, r)
    /\ SymIdsOf(file) # {}
    /\ \A s \in SymIdsOf(file) : ~hasSymbol(G, s)
    /\ ~hasSymbol(updateFile(G, filePath, file), r.fromSymbolId)
    /\ \A s \in SymIdsOf(file) : hasSymbol(updateFile(G, filePath, file), s)
    /\ ~Returned(updateFile(G, filePath, file), r)

(***************************************************************************)
(* C10: a symbol whose id is listed in the symbols of no recorded file is  *)
(* neither removed from the symbol table nor changed in it by              *)
(* removeFile(path), which is also the removal step of                     *)
(* updateFile(path, file), for any path.                                   *)
(***************************************************************************)
C10_UnlistedSymbolsKept ==
  \A filePath \in Paths :
    LET after == removeFile(G, filePath)
    IN \A id \in DOMAIN symbols_ :
         (\A q \in DOMAIN files_ : id \notin FileSymIds(G, q)) =>
           /\ hasSymbol(after, id)
           /\ after.symbols_[id] = symbols_[id]

\* A symbol added directly (no parsed file carries its payload) is listed in
\* no file while a recorded file lists another stored symbol; removeFile
\* erases the listed symbol and keeps the unlisted one.
C10_Witness ==
  \E filePath \in DOMAIN files_, id \in DOMAIN symbols_ :
    /\ \A q \in DOMAIN files_ : id \notin FileSymIds(G, q)
    /\ symbols_[id] \notin ParsedSymbol
    /\ \E s \in FileSymIds(G, filePath) :
         hasSymbol(G, s) /\ ~hasSymbol(removeFile(G, filePath), s)
    /\ hasSymbol(removeFile(G, filePath), id)

(***************************************************************************)
(* C11: addFile(file) on a path that already has a record replaces the     *)
(* record without cascading cleanup.  Every symbol and every reference of  *)
(* the tables is still there afterwards, with the adjacency lists as they  *)
(* were (a symbol is overwritten only where the new file reuses its id),   *)
(* and a later removeFile(path) removes only the symbols the new record    *)
(* lists.                                                                  *)
(***************************************************************************)
C11_AddFileNoCascade ==
  \A file \in ParsedFiles :
    hasFile(G, file.path) =>
      LET after == addFile(G, file)
          later == removeFile(after, file.path)
      IN /\ after.files_[file.path] = file
         /\ \A id \in DOMAIN symbols_ :
              /\ hasSymbol(after, id)
              /\ id \notin SymIdsOf(file) => after.symbols_[id] = symbols_[id]
         /\ after.references_ = references_
         /\ after.symbolToReferences_ = symbolToReferences_
         /\ after.symbolToCallers_ = symbolToCallers_
         /\ \A id \in DOMAIN after.symbols_ :
              id \notin SymIdsOf(file) =>
                hasSymbol(later, id) /\ later.symbols_[id] = after.symbols_[id]

\* The record at a path lists a stored symbol that has a reference; a file
\* for the same path lists only another symbol, stored with another payload.
\* addFile keeps the old symbol and the reference and overwrites the reused
\* one, and the later removeFile leaves the old symbol behind.
C11_Witness ==
  \E file \in ParsedFiles :
    /\ hasFile(G, file.path)
    /\ references_ # EmptyMap
    /\ \E old \in FileSymIds(G, file.path) \ SymIdsOf(file) :
         /\ hasSymbol(G, old)
         /\ \E r \in Stored(G) : r.fromSymbolId = old
         /\ hasSymbol(addFile(G, file), old)
         /\ hasSymbol(removeFile(addFile(G, file), file.path), old)
    /\ \E i \in 1..Len(file.symbols) :
         /\ hasSymbol(G, file.symbols[i].id)
         /\ symbols_[file.symbols[i].id] # file.symbols[i]
         /\ addFile(G, file).symbols_[file.symbols[i].id] = file.symbols[i]
         /\ ~hasSymbol(removeFile(addFile(G, file), file.path), file.symbols[i].id)

(***************************************************************************)
(* C12: for every id, getSymbol(id) returns a symbol whose id is the empty *)
(* string exactly when hasSymbol(id) is false; otherwise it returns the    *)
(* stored symbol, whose id is the queried id; and the binding's getSymbol  *)
(* returns null exactly for the ids hasSymbol rejects.  (Violated: a       *)
(* symbol passed without an id is stored under the empty string.)          *)
(***************************************************************************)
C12_SentinelAgreesWithHasSymbol ==
  \A id \in SymIds \cup {""} :
    /\ (getSymbol(G, id).id = "") <=> ~hasSymbol(G, id)
    /\ hasSymbol(G, id) =>
         getSymbol(G, id) = symbols_[id] /\ getSymbol(G, id).id = id
    /\ (GetSymbol(G, id) = Null) <=> ~hasSymbol(G, id)

(***************************************************************************)
(* C13: clear() in any reachable state leaves the state of a freshly       *)
(* constructed index, so every later operation sequence behaves as on a    *)
(* new instance; size() is 0, getAllSymbols() is empty, and every id and   *)
(* path answers false, the empty sentinel or the empty list to hasSymbol,  *)
(* getSymbol, hasFile, isSymbolUsed, findCallers, findCallees and          *)
(* findSymbolsByFile.                                                      *)
(***************************************************************************)
C13_ClearIsFresh ==
  LET after == clear(G)
  IN /\ after = EmptyGraph
     /\ size(after) = 0
     /\ getAllSymbols(after) = <<>>
     /\ \A id \in SymIds \cup {""} :
          /\ ~hasSymbol(after, id)
          /\ getSymbol(after, id).id = ""
          /\ ~isSymbolUsed(after, id)
          /\ findCallers(after, id) = <<>>
          /\ findCallees(after, id) = <<>>
     /\ \A filePath \in Paths :
          /\ ~hasFile(after, filePath)
          /\ findSymbolsByFile(after, filePath) = <<>>

\* clear() is called where every one of the six containers holds something
\* and a symbol is in use.
C13_Witness ==
  /\ symbols_ # EmptyMap /\ references_ # EmptyMap /\ files_ # EmptyMap
  /\ dirtyFiles_ # {}
  /\ \E id \in SymIds : isSymbolUsed(G, id) /\ findCallers(G, id) # <<>>
  /\ \E id \in SymIds : findCallees(G, id) # <<>>
  /\ clear(G) = EmptyGraph

(***************************************************************************)
(* C14: for every symbol s in the symbol table exactly one of              *)
(* isSymbolUsed(s.id) and membership of s in findUnusedSymbols() holds,    *)
(* and findUnusedSymbols() returns only symbols of the table.              *)
(***************************************************************************)
C14_UsedUnusedPartition ==
  LET unused == findUnusedSymbols(G)
  IN /\ \A id \in DOMAIN symbols_ :
          isSymbolUsed(G, symbols_[id].id) <=> ~InSeq(symbols_[id], unused)
     /\ \A i \in 1..Len(unused) :
          \E id \in DOMAIN symbols_ : unused[i] = symbols_[id]

\* One stored symbol is used and another is not.
C14_Witness ==
  /\ \E id \in DOMAIN symbols_ : isSymbolUsed(G, id)
  /\ \E id \in DOMAIN symbols_ : ~isSymbolUsed(G, id)
  /\ Len(findUnusedSymbols(G)) = 1

(***************************************************************************)
(* C15: getStats().totalSymbols, size() and the number of elements of      *)
(* getAllSymbols() are equal, and equal the number of distinct symbol ids  *)
(* stored.                                                                 *)
(***************************************************************************)
C15_StatsConsistent ==
  LET all == getAllSymbols(G)
  IN /\ getStats(G).totalSymbols = size(G)
     /\ size(G) = Len(all)
     /\ Len(all) = Cardinality({all[i].id : i \in 1..Len(all)})
     /\ {all[i].id : i \in 1..Len(all)} = DOMAIN symbols_

\* Two symbols are stored beside one reference and one file of two symbols.
C15_Witness ==
  /\ size(G) = 2
  /\ getStats(G).totalReferences = 1
  /\ getStats(G).totalFiles = 1
  /\ \E filePath \in DOMAIN files_ : Len(files_[filePath].symbols) = 2

(***************************************************************************)
(* C16: a second addSymbol(s) with an identical value leaves the whole     *)
(* state, and so the cardinality of getAllSymbols(), unchanged; after      *)
(* addSymbols(list), getSymbol(id) is the last element of list with that   *)
(* id.                                                                     *)
(***************************************************************************)
C16_LastWriteWins ==
  /\ \A obj \in JsSymbol :
       LET s == JsToSymbol(obj)
           once == addSymbol(G, s)
           twice == addSymbol(once, s)
       IN /\ twice = once
          /\ Len(getAllSymbols(twice)) = Len(getAllSymbols(once))
  /\ \A list \in BSeq(Symbol, MaxSyms) :
       LET after == addSymbols(G, list)
       IN \A i \in 1..Len(list) :
            (\A j \in (i + 1)..Len(list) : list[j].id # list[i].id) =>
              getSymbol(after, list[i].id) = list[i]

\* A stored symbol is overwritten twice by one list: the value stored
\* before and the first element of the list both lose to the last element.
C16_Witness ==
  \E list \in BSeq(Symbol, MaxSyms) :
    /\ Len(list) = 2 /\ list[1].id = list[2].id /\ list[1] # list[2]
    /\ hasSymbol(G, list[1].id) /\ getSymbol(G, list[1].id) = list[1]
    /\ getSymbol(addSymbols(G, list), list[1].id) = list[2]
    /\ size(addSymbols(G, list)) = size(G)


(***************************************************************************)
(* C17: findCallers(x) and findCallees(x) return references in the order   *)
(* in which addReference appended their ids: an added reference comes      *)
(* last in the two lists it joins and every other answer is unchanged;     *)
(* removeReferences and removeFile leave the references that remain in     *)
(* their relative order, in every answer.                                  *)
(***************************************************************************)
StillStored(before, after) ==
  SelectSeq(before, LAMBDA reference : Has(after.references_, reference.id))

OrderKept(after) ==
  \A x \in SymIds :
    /\ findCallers(after, x) = StillStored(findCallers(G, x), after)
    /\ findCallees(after, x) = StillStored(findCallees(G, x), after)

C17_InsertionOrder ==
  /\ \A reference \in UniqueReferences :
       ~Has(references_, reference.id) =>
         LET after == addReference(G, reference)
         IN \A x \in SymIds :
              /\ findCallers(after, x) =
                   IF x = reference.toSymbolId
                   THEN Append(findCallers(G, x), reference)
                   ELSE findCallers(G, x)
              /\ findCallees(after, x) =
                   IF x = reference.fromSymbolId
                   THEN Append(findCallees(G, x), reference)
                   ELSE findCallees(G, x)
  /\ \A symbolId \in SymIds : OrderKept(removeReferences(G, symbolId))
  /\ \A filePath \in Paths : OrderKept(removeFile(G, filePath))

\* Three references were added to one incoming list; removeReferences, and
\* removeFile as well, takes out the first, and the other two are returned
\* in their old order.
C17_Witness ==
  \E x, symbolId \in SymIds :
    LET before == findCallers(G, x)
        after == findCallers(removeReferences(G, symbolId), x)
        filed == findCallers(removeFile(G, "p"), x)
    IN /\ Len(before) = 3
       /\ after = <<before[2], before[3]>>
       /\ filed = <<before[2], before[3]>>

(***************************************************************************)
(* C18: when addReference is never called with an id the reference table   *)
(* holds, the adjacency indices mirror the reference table: the outgoing   *)
(* list of x holds, without duplicates, exactly the ids of the references  *)
(* with fromSymbolId = x, and the incoming list of x exactly the ids of    *)
(* the references with toSymbolId = x.                                     *)
(***************************************************************************)
NoDuplicates(v) == \A i, j \in 1..Len(v) : v[i] = v[j] => i = j

Elems(v) == {v[i] : i \in 1..Len(v)}

C18_MirrorUnderUniqueIds ==
  /\ \A x \in SymIds \cup DOMAIN symbolToReferences_ :
       /\ NoDuplicates(At(symbolToReferences_, x))
       /\ Elems(At(symbolToReferences_, x)) =
            {id \in DOMAIN references_ : references_[id].fromSymbolId = x}
  /\ \A x \in SymIds \cup DOMAIN symbolToCallers_ :
       /\ NoDuplicates(At(symbolToCallers_, x))
       /\ Elems(At(symbolToCallers_, x)) =
            {id \in DOMAIN references_ : references_[id].toSymbolId = x}

\* Two references share an incoming list after others were removed: an
\* outgoing list emptied by removeFile's pruning and an incoming list
\* emptied by removeReferences' pruning are still keyed.
C18_Witness ==
  /\ Cardinality(DOMAIN references_) = 2
  /\ \E x \in SymIds : Len(At(symbolToCallers_, x)) = 2
  /\ \E x \in DOMAIN symbolToReferences_ : symbolToReferences_[x] = <<>>
  /\ \E x \in DOMAIN symbolToCallers_ : symbolToCallers_[x] = <<>>

(***************************************************************************)
(* C19: for every symbol id x, isSymbolUsed(x) is true exactly when        *)
(* findCallers(x) is non-empty, that is, exactly when some reference of    *)
(* the reference table has toSymbolId = x.  (Violated: once a reference id *)
(* is re-added with another target, the incoming list of the old target    *)
(* keeps the id.)                                                          *)
(***************************************************************************)
C19_UsedIffIncomingReference ==
  \A x \in SymIds :
    /\ isSymbolUsed(G, x) <=> findCallers(G, x) # <<>>
    /\ isSymbolUsed(G, x) <=>
         \E id \in DOMAIN references_ : references_[id].toSymbolId = x

(***************************************************************************)
(* C20: removeFile and removeReferences are not atomic.  Between two of    *)
(* their statements a reader can find a reference r returned by            *)
(* findCallees(r.fromSymbolId) and not by findCallers(r.toSymbolId), or an *)
(* adjacency list holding an id absent from the reference table; between   *)
(* calls, with unique reference ids, no such state exists.                 *)
(***************************************************************************)
HalfReturned(g) ==
  \E id \in DOMAIN g.references_ :
    LET reference == g.references_[id]
    IN /\ InSeq(reference, findCallees(g, reference.fromSymbolId))
       /\ ~InSeq(reference, findCallers(g, reference.toSymbolId))

DanglingId(g) ==
  \/ \E x \in DOMAIN g.symbolToReferences_ :
       \E i \in 1..Len(g.symbolToReferences_[x]) :
         ~Has(g.references_, g.symbolToReferences_[x][i])
  \/ \E x \in DOMAIN g.symbolToCallers_ :
       \E i \in 1..Len(g.symbolToCallers_[x]) :
         ~Has(g.references_, g.symbolToCallers_[x][i])

C20_ConsistentBetweenCalls ==
  pc = Idle => ~HalfReturned(G) /\ ~DanglingId(G)

\* In the middle of a removal one reference is pruned from the incoming
\* list and not yet erased, while the id of another, already erased, is
\* still in the outgoing list.
C20_Witness ==
  /\ pc # Idle
  /\ HalfReturned(G)
  /\ DanglingId(G)

(***************************************************************************)
(* C21: a binding call whose top-level argument is missing or of the wrong *)
(* shape (not an object for addSymbol, addReference, addFile; not an array *)
(* for addSymbols, addReferences; not a string for the lookups and         *)
(* removals; not a string and an object for updateFile) throws a TypeError *)
(* and leaves the whole state unchanged.                                   *)
(***************************************************************************)
Primitive(v) == v.type \in {"undefined", "number", "string"}

Rejected(result) == result.thrown = "TypeError" /\ result.graph = G

C21_WrongShapeRejected ==
  \A info \in Infos :
    /\ (Len(info) = 0 \/ Primitive(info[1])) =>
         /\ Rejected(Wrapper_AddSymbol(G, info))
         /\ Rejected(Wrapper_AddReference(G, info))
         /\ Rejected(Wrapper_AddFile(G, info))
    /\ (Len(info) = 0 \/ info[1].type # "array") =>
         /\ Rejected(Wrapper_AddSymbols(G, info))
         /\ Rejected(Wrapper_AddReferences(G, info))
    /\ (Len(info) = 0 \/ info[1].type # "string") =>
         /\ Rejected(Wrapper_RemoveReferences(G, info))
         /\ Rejected(Wrapper_RemoveFile(G, info))
         /\ Rejected(Wrapper_Lookup(G, info))
    /\ (Len(info) < 2 \/ info[1].type # "string" \/ Primitive(info[2])) =>
         Rejected(Wrapper_UpdateFile(G, info))

\* A file, its symbols and a reference are stored; removeFile with the file
\* object in place of the path, updateFile without the file object and
\* addSymbol with an id in place of the object are rejected, where the
\* well-formed removeFile would have changed the state.
C21_Witness ==
  /\ hasFile(G, "p") /\ references_ # EmptyMap /\ symbols_ # EmptyMap
  /\ removeFile(G, "p") # G
  /\ Rejected(Wrapper_RemoveFile(G, <<JsObject(files_["p"])>>))
  /\ Rejected(Wrapper_UpdateFile(G, <<JsString("p")>>))
  /\ Rejected(Wrapper_AddSymbol(G, <<JsString("A")>>))

(***************************************************************************)
(* C22: for every recorded file path p, every symbol returned by           *)
(* findSymbolsByFile(p) is in the symbol table (hasSymbol of its id is     *)
(* true), also when two files list the same symbol id and one of them is   *)
(* removed.  (Violated: removeFile erases the symbols its record lists     *)
(* whether or not another record lists them.)                              *)
(***************************************************************************)
C22_FileSymbolsStored ==
  \A filePath \in DOMAIN files_ :
    LET listed == findSymbolsByFile(G, filePath)
    IN \A i \in 1..Len(listed) : hasSymbol(G, listed[i].id)

(***************************************************************************)
(* C23: after updateFile(path, file), hasFile(file.path) is true, and      *)
(* hasFile(path) is true exactly when file.path = path.  When file.path    *)
(* differs from path, the record at path is removed with its cascade (its  *)
(* symbols outside file.symbols are erased and no reference touching one   *)
(* of its symbols is returned any more), while a record stored at          *)
(* file.path is overwritten without cleanup: beyond that cascade no        *)
(* symbol, no reference and no adjacency entry is removed, so the symbols  *)
(* the overwritten record listed stay in the symbol table.                 *)
(***************************************************************************)
ListedAt(g, filePath) ==
  IF hasFile(g, filePath) THEN FileSymIds(g, filePath) ELSE {}

C23_UpdateFileToOtherPath ==
  \A filePath \in Paths, file \in TwoFiles :
    LET after == updateFile(G, filePath, file)
        cascade == removeFile(G, filePath)
        old == ListedAt(G, filePath)
    IN /\ hasFile(after, file.path)
       /\ hasFile(after, filePath) <=> file.path = filePath
       /\ file.path # filePath =>
            /\ \A s \in old \ SymIdsOf(file) : ~hasSymbol(after, s)
            /\ \A r \in Stored(G) :
                 (r.fromSymbolId \in old \/ r.toSymbolId \in old) => ~Returned(after, r)
            /\ after.files_[file.path] = file
            /\ after.references_ = cascade.references_
            /\ after.symbolToReferences_ = cascade.symbolToReferences_
            /\ after.symbolToCallers_ = cascade.symbolToCallers_
            /\ \A s \in DOMAIN cascade.symbols_ : hasSymbol(after, s)
            /\ \A s \in ListedAt(G, file.path) \ old :
                 hasSymbol(G, s) => hasSymbol(after, s) /\ after.symbols_[s] = symbols_[s]

\* Both paths have a record.  The update of one path with a file of the
\* other path erases the first record and its symbol; the record of the
\* other path is replaced by an empty one, and the symbol it listed and the
\* reference of that symbol are still there.
C23_Witness ==
  \E filePath \in DOMAIN files_, file \in TwoFiles :
    LET after == updateFile(G, filePath, file)
    IN /\ file.path # filePath /\ hasFile(G, file.path)
       /\ file.symbols = <<>>
       /\ \E s \in ListedAt(G, filePath) : hasSymbol(G, s) /\ ~hasSymbol(after, s)
       /\ \E s \in ListedAt(G, file.path) \ ListedAt(G, filePath) :
            /\ hasSymbol(after, s)
            /\ \E r \in Stored(after) : r.fromSymbolId = s /\ Returned(after, r)
       /\ ~hasFile(after, filePath)
       /\ after.files_[file.path] = file

====
